---- MODULE Spec2Model ----
(***************************************************************************)
(* Model of scrap.py: the article identity, the master CSV store, its      *)
(* loader, the legacy-format migration and the merge (save_to_master);     *)
(* the half-month window, the page loop of get_articles and the main       *)
(* program with its numbered snapshot files.                               *)
(*                                                                         *)
(* A text is a sequence of one-character strings.  A CSV file is a header  *)
(* (sequence of column names) and data lines (sequences of texts, one per  *)
(* header column); csv.DictReader turns a line into a dict keyed by the    *)
(* header, csv.DictWriter turns a dict into a line of the six fieldnames.  *)
(***************************************************************************)
EXTENDS Integers, Sequences, FiniteSets, TLC

VARIABLES
    master,     \* the master store file articulos_maestro/articulos.csv
    runStart,   \* the master store file as the run found it
    lastOp,     \* the function called last in this run, "none" before
    repeated,   \* whether that call repeated the call before it
    pre,        \* the master store file as it was when that call started
    batch,      \* the articles argument of that call (save_to_master)
    outcome,    \* "none", "returned" or "raised" (an uncaught exception)
    ret,        \* the value returned by save_to_master
    now,        \* what datetime.now() gave that call, NoDate if not read
    accessLog,  \* the opens of the master file by that call, in order
    loaded,     \* the mapping load_existing_articles returned
    idArgs,     \* two (title, journal, date) triples given to the identity
    idContent,  \* the two strings generate_article_id fed to the digest
    calendar,   \* datetime.now() of get_date_range: day and length of month
    dateRange,  \* what get_date_range returned
    page,       \* get_articles: the page number
    fetchPc,    \* get_articles: "idle", "loop", "break" or "done"
    requests,   \* get_articles: result pages requested so far
    articulos,  \* get_articles: the records collected so far
    response,   \* get_articles: how the last page request went
    fetched,    \* the list get_articles returned
    mainPc,     \* main program: "idle", "start", "fetched", "snapshot", "saved"
    resultados, \* main program: the fetched batch
    dataDir,    \* the numbers n of the files data/articulos_n.csv
    dirAtStart, \* dataDir as the run found it
    snapshot    \* the numbered file this run wrote, and its number

vars == <<master, runStart, lastOp, repeated, pre, batch, outcome, ret, now,
          accessLog, loaded, idArgs, idContent, calendar, dateRange, page,
          fetchPc, requests, articulos, response, fetched, mainPc, resultados,
          dataDir, dirAtStart, snapshot>>

idVars == <<idArgs, idContent>>
dateVars == <<calendar, dateRange>>
fetchVars == <<page, fetchPc, requests, articulos, response, fetched>>
mainVars == <<mainPc, resultados, dataDir, dirAtStart, snapshot>>

----------------------------------------------------------------------------
(* Bounds *)

MaxRows == 2        \* data lines of an initial master file
MaxBatch == 2       \* articles of one batch
MaxLen == 1         \* characters of a text given to the identity function
MaxPerPage == 2     \* article elements of one result page
MaxSnapshot == 3    \* the highest number a snapshot file gets

----------------------------------------------------------------------------
(* Helpers *)

Range(s) == {s[i] : i \in DOMAIN s}

SeqsUpTo(S, n) == UNION {[1..k -> S] : k \in 0..n}

EmptyText == <<>>

\* dict.get(key, '')
Get(row, key) == IF key \in DOMAIN row THEN row[key] ELSE EmptyText

\* row[key] = value
SetKey(row, key, value) ==
    [c \in DOMAIN row \cup {key} |-> IF c = key THEN value ELSE row[c]]

----------------------------------------------------------------------------
(* generate_article_id *)

\* the three texts joined with no separator
ContentNoSeparator(title, journal, date) == title \o journal \o date

\* f"{title}_{journal}_{date}"
Content(title, journal, date) ==
    title \o <<"_">> \o journal \o <<"_">> \o date

\* hashlib.md5(content.encode()).hexdigest(): a digest, taken to be free of
\* collisions; "#" marks a digest and is no character of any text.
Md5Hex(content) == <<"#">> \o content

generate_article_id(title, journal, date) ==
    Md5Hex(Content(title, journal, date))

----------------------------------------------------------------------------
(* The CSV file *)

fieldnames == <<"id", "title", "journal", "date", "abstract", "scraped_date">>

NoFile == [exists |-> FALSE, header |-> <<>>, rows |-> <<>>]

NoDate == <<"-">>

\* csv.DictReader: one dict per data line, keyed by the header's columns
DictReader(f) ==
    [i \in DOMAIN f.rows |->
        [c \in Range(f.header) |->
            f.rows[i][CHOOSE k \in DOMAIN f.header : f.header[k] = c]]]

\* csv.DictWriter._dict_to_list: extrasaction='raise', restval=''
WrongFields(rowdict) == DOMAIN rowdict \ Range(fieldnames)

dict_to_list(rowdict) ==
    [k \in DOMAIN fieldnames |-> Get(rowdict, fieldnames[k])]

\* open(master_file, 'w'); writeheader(); writerows(rowdicts): the file is
\* truncated, the header written, and the lines written one by one until a
\* dict with a key outside fieldnames raises ValueError.
FirstWrong(rowdicts) ==
    IF \E i \in DOMAIN rowdicts : WrongFields(rowdicts[i]) # {}
    THEN CHOOSE i \in DOMAIN rowdicts :
            /\ WrongFields(rowdicts[i]) # {}
            /\ \A j \in 1..(i - 1) : WrongFields(rowdicts[j]) = {}
    ELSE Len(rowdicts) + 1

WriteFile(rowdicts) ==
    LET n == FirstWrong(rowdicts) - 1
    IN [file |-> [exists |-> TRUE,
                  header |-> fieldnames,
                  rows |-> [i \in 1..n |-> dict_to_list(rowdicts[i])]],
        raised |-> n < Len(rowdicts)]

----------------------------------------------------------------------------
(* load_existing_articles *)

\* existing_articles[row['id']] = row on an insertion-ordered dict, kept as
\* the sequence of its values: a known key keeps its place and takes the new
\* value, an unknown key is appended.
\* a put that keeps the value a known key already has
DictPutKeepFirst(d, row) ==
    IF \E i \in DOMAIN d : d[i]["id"] = row["id"] THEN d ELSE Append(d, row)

DictPut(d, row) ==
    IF \E i \in DOMAIN d : d[i]["id"] = row["id"]
    THEN [i \in DOMAIN d |-> IF d[i]["id"] = row["id"] THEN row ELSE d[i]]
    ELSE Append(d, row)

\* the fallback id taken from the title alone
WithIdTitleOnly(row) ==
    IF "id" \notin DOMAIN row
    THEN SetKey(row, "id",
                generate_article_id(Get(row, "title"), EmptyText, EmptyText))
    ELSE row

\* the fallback for rows of a file without the id column
WithId(row) ==
    IF "id" \notin DOMAIN row
    THEN SetKey(row, "id",
                generate_article_id(Get(row, "title"), Get(row, "journal"),
                                    Get(row, "date")))
    ELSE row

RECURSIVE LoadRows(_, _)
LoadRows(d, rows) ==
    IF rows = <<>> THEN d
    ELSE LoadRows(DictPut(d, WithId(Head(rows))), Tail(rows))

load_existing_articles(f) ==
    IF f.exists THEN LoadRows(<<>>, DictReader(f)) ELSE <<>>

Keys(d) == {d[i]["id"] : i \in DOMAIN d}

----------------------------------------------------------------------------
(* migrate_old_format *)

\* 'id' in content.split('\n')[0]: a substring test on the header line.  Of
\* the column names that occur here only "id" holds the substring.
NamesHoldingId == {"id"}

\* a header test that never finds the id column
HeaderLineNeverHasId(f) == FALSE


HeaderLineHasId(f) == \E k \in DOMAIN f.header : f.header[k] \in NamesHoldingId

\* rows given an id made of the title alone
MigratedRowsTitleOnly(f, today) ==
    LET old == DictReader(f)
    IN [i \in DOMAIN old |->
          SetKey(SetKey(old[i], "id",
                        generate_article_id(Get(old[i], "title"),
                                            EmptyText, EmptyText)),
                 "scraped_date", today)]

\* the rows of a legacy file, each with its id and the scraping date added
MigratedRows(f, today) ==
    LET old == DictReader(f)
    IN [i \in DOMAIN old |->
          SetKey(SetKey(old[i], "id",
                        generate_article_id(Get(old[i], "title"),
                                            Get(old[i], "journal"),
                                            Get(old[i], "date"))),
                 "scraped_date", today)]

migrate_old_format(f, today) ==
    IF ~f.exists
    THEN [file |-> f, raised |-> FALSE, clock |-> NoDate, log |-> <<>>]
    ELSE IF HeaderLineHasId(f)
    THEN [file |-> f, raised |-> FALSE, clock |-> NoDate,
          log |-> <<"migrate_read">>]
    ELSE LET w == WriteFile(MigratedRows(f, today))
         IN [file |-> w.file, raised |-> w.raised,
             clock |-> today,
             log |-> <<"migrate_read", "migrate_reread", "migrate_write">>]

----------------------------------------------------------------------------
(* save_to_master *)

\* no filter: every article of the batch counts as new
NewArticlesUnfiltered(articles, existing) == articles

\* [article for article in articles if article['id'] not in existing_articles]
NewArticles(articles, existing) ==
    SelectSeq(articles, LAMBDA article : article["id"] \notin Keys(existing))

save_to_master(articles, f, today) ==
    LET m == migrate_old_format(f, today)
        existing_articles == load_existing_articles(m.file)
        loadLog == IF m.file.exists THEN <<"load_read">> ELSE <<>>
        new_articles == NewArticles(articles, existing_articles)
        w == WriteFile(existing_articles \o new_articles)
    IN  IF m.raised
        THEN [file |-> m.file, outcome |-> "raised", ret |-> 0,
              clock |-> m.clock, log |-> m.log]
        ELSE IF new_articles = <<>>
        THEN [file |-> m.file, outcome |-> "returned", ret |-> 0,
              clock |-> m.clock, log |-> m.log \o loadLog]
        ELSE [file |-> w.file,
              outcome |-> IF w.raised THEN "raised" ELSE "returned",
              ret |-> IF w.raised THEN 0 ELSE Len(new_articles),
              clock |-> m.clock,
              log |-> m.log \o loadLog \o <<"merge_write">>]

----------------------------------------------------------------------------
(* The values the model draws from *)

T(c) == <<c>>

Titles == {T("A"), T("B")}
Journal == T("J")
Date == T("D")
Abstracts == {T("x"), T("y")}
Link == T("L")
OldScrapedDate == T("0")     \* scraped_date of the rows of an initial file
Today == {T("1"), T("2")}    \* what datetime.now() may give a call

\* datetime.now() is read only for the rows of a legacy file
ReadsClock(f) == f.exists /\ ~HeaderLineHasId(f) /\ f.rows # <<>>
Clock(f) == IF ReadsClock(f) THEN Today ELSE {NoDate}

\* a record as get_articles builds it, with the optional keys in opt
Article(title, abstract, opt) ==
    LET all == [id |-> generate_article_id(title, Journal, Date),
                title |-> title, journal |-> Journal, date |-> Date,
                abstract |-> abstract, scraped_date |-> T("1"), link |-> Link]
    IN [c \in {"id", "title", "journal", "date"} \cup opt |-> all[c]]

SixColumnArticles ==
    { Article(T("A"), T("x"), {"abstract", "scraped_date"}),
      Article(T("A"), T("y"), {"abstract", "scraped_date"}),
      Article(T("B"), T("x"), {"abstract", "scraped_date"}) }

\* articles with fewer keys than the six columns, and with one more
Articles ==
    SixColumnArticles
    \cup {Article(T("A"), T("x"), {})}
    \cup {Article(T("B"), T("y"), {"abstract", "scraped_date", "link"})}

Batches == SeqsUpTo(Articles, MaxBatch)

\* headers of the master files a run may find
LegacyHeader == <<"title", "journal", "date", "abstract">>
Headers ==
    { fieldnames,
      LegacyHeader,
      <<"title", "abstract">>,
      LegacyHeader \o <<"link">>,
      <<"id", "title", "journal", "date">>,
      fieldnames \o <<"link">> }

\* the data line of an initial file with the given header for one title
Line(header, title) ==
    LET all == [id |-> generate_article_id(
                          IF "title" \in Range(header) THEN title ELSE EmptyText,
                          IF "journal" \in Range(header) THEN Journal ELSE EmptyText,
                          IF "date" \in Range(header) THEN Date ELSE EmptyText),
                title |-> title, journal |-> Journal, date |-> Date,
                abstract |-> T("x"), scraped_date |-> OldScrapedDate,
                link |-> Link]
    IN [k \in DOMAIN header |-> all[header[k]]]

\* initial files: absent, empty, or a header and lines of distinct articles
InitialFiles ==
    {NoFile, [exists |-> TRUE, header |-> <<>>, rows |-> <<>>]}
    \cup { [exists |-> TRUE, header |-> h,
            rows |-> [i \in DOMAIN ts |-> Line(h, ts[i])]] :
           h \in Headers,
           ts \in {s \in SeqsUpTo(Titles, MaxRows) :
                     \A i, j \in DOMAIN s : i # j => s[i] # s[j]} }

NoTriple == <<EmptyText, EmptyText, EmptyText>>

----------------------------------------------------------------------------
(* get_date_range.  A date of the current month is its day; a date of the  *)
(* next month is the length of the current month plus its day.             *)

MonthLengths == 28..31

NoCalendar == [day |-> 0, days |-> 0]
NoRange == [start |-> 0, end |-> 0, period |-> "none"]

\* date.day of a date of this month or the next
DayOf(date, days) == IF date > days THEN date - days ELSE date

get_date_range(day, days) ==
    IF day >= 15
    THEN LET next_month == 28 + 4
             end_date == next_month - DayOf(next_month, days)
         IN [start |-> 16, end |-> end_date, period |-> "quincena_2"]
    ELSE [start |-> 1, end |-> 15, period |-> "quincena_1"]

----------------------------------------------------------------------------
(* clean_text and the record get_articles makes of an article element *)

Whitespace == {" ", "\n"}

\* re.sub(r'\s+', ' ', text)
RECURSIVE CollapseSpaces(_)
CollapseSpaces(text) ==
    IF text = <<>> THEN <<>>
    ELSE IF Head(text) \notin Whitespace
    THEN <<Head(text)>> \o CollapseSpaces(Tail(text))
    ELSE IF Len(text) >= 2 /\ text[2] \in Whitespace
    THEN CollapseSpaces(Tail(text))
    ELSE <<" ">> \o CollapseSpaces(Tail(text))

RECURSIVE LStrip(_)
LStrip(text) ==
    IF text # <<>> /\ Head(text) \in Whitespace THEN LStrip(Tail(text)) ELSE text

RECURSIVE RStrip(_)
RStrip(text) ==
    IF text # <<>> /\ text[Len(text)] \in Whitespace
    THEN RStrip(SubSeq(text, 1, Len(text) - 1))
    ELSE text

\* str.strip()
Strip(text) == RStrip(LStrip(text))

clean_text(text) ==
    IF text # <<>> THEN Strip(CollapseSpaces(text)) ELSE EmptyText

\* text.split(sep)[0]
RECURSIVE UpTo(_, _)
UpTo(text, sep) ==
    IF text = <<>> \/ Head(text) = sep THEN <<>>
    ELSE <<Head(text)>> \o UpTo(Tail(text), sep)

\* what follows the first sep of a text that holds one
After(text, sep) == SubSeq(text, Len(UpTo(text, sep)) + 2, Len(text))

NoTag == <<"<none>">>              \* find() gave None
RequestError == <<"<error>">>      \* the request of the article page raised

Desconocida == <<"Desconocida">>
NoAbstractAvailable == <<"No abstract available">>
ErrorAbstract == <<"Error al obtener abstract">>

Revista(art) ==
    IF art.citation # NoTag
    THEN clean_text(UpTo(Strip(art.citation), "."))
    ELSE Desconocida

Fecha(art) ==
    IF art.citation # NoTag
    THEN LET journal_text == Strip(art.citation)
         IN clean_text(IF "." \in Range(journal_text)
                       THEN UpTo(Strip(UpTo(After(journal_text, "."), ".")), ";")
                       ELSE EmptyText)
    ELSE Desconocida

AbstractOf(art) ==
    IF art.abstract = RequestError THEN ErrorAbstract
    ELSE IF art.abstract = NoTag THEN NoAbstractAvailable
    ELSE clean_text(Strip(art.abstract))

\* the dict appended to articulos for an element that has a title
Record(art, today) ==
    LET title == clean_text(Strip(art.title))
    IN [id |-> generate_article_id(title, Revista(art), Fecha(art)),
        title |-> title,
        journal |-> Revista(art),
        date |-> Fecha(art),
        abstract |-> AbstractOf(art),
        scraped_date |-> today]

\* for art in articles: elements without title are passed over
Records(articles, today) ==
    LET titled == SelectSeq(articles, LAMBDA art : art.title # NoTag)
    IN [i \in DOMAIN titled |-> Record(titled[i], today)]

ScrapeDay == T("1")     \* datetime.now() during the fetch

----------------------------------------------------------------------------
(* Frames and rest states of the parts of the model *)

storeVars == <<master, runStart, lastOp, repeated, pre, batch, outcome, ret,
               now, accessLog, loaded>>

StoreIdle ==
    /\ master = NoFile
    /\ runStart = NoFile
    /\ lastOp = "none"
    /\ repeated = FALSE
    /\ pre = NoFile
    /\ batch = <<>>
    /\ outcome = "none"
    /\ ret = 0
    /\ now = NoDate
    /\ accessLog = <<>>
    /\ loaded = <<>>

IdIdle ==
    /\ idArgs = <<NoTriple, NoTriple>>
    /\ idContent = <<EmptyText, EmptyText>>

DateIdle ==
    /\ calendar = NoCalendar
    /\ dateRange = NoRange

FetchIdle ==
    /\ page = 0
    /\ fetchPc = "idle"
    /\ requests = 0
    /\ articulos = <<>>
    /\ response = "none"
    /\ fetched = <<>>

NoSnapshot == [number |-> 0, file |-> NoFile]

MainIdle ==
    /\ mainPc = "idle"
    /\ resultados = <<>>
    /\ dataDir = {}
    /\ dirAtStart = {}
    /\ snapshot = NoSnapshot

----------------------------------------------------------------------------
(* The store.  A run of the program starts with nothing but the master     *)
(* file; it calls one of the three functions, and may then call the same   *)
(* function once more with the same arguments.  The next run starts from   *)
(* the file this one left.                                                 *)

Init ==
    /\ master \in InitialFiles
    /\ runStart = NoFile
    /\ lastOp = "none"
    /\ repeated = FALSE
    /\ pre = NoFile
    /\ batch = <<>>
    /\ outcome = "none"
    /\ ret = 0
    /\ now = NoDate
    /\ accessLog = <<>>
    /\ loaded = <<>>
    /\ IdIdle /\ DateIdle /\ FetchIdle /\ MainIdle

CallSaveToMaster(articles, today) ==
    LET r == save_to_master(articles, master, today)
    IN /\ master' = r.file
       /\ lastOp' = "save_to_master"
       /\ pre' = master
       /\ batch' = articles
       /\ outcome' = r.outcome
       /\ ret' = r.ret
       /\ now' = r.clock
       /\ accessLog' = r.log
       /\ loaded' = <<>>
       /\ UNCHANGED <<idVars, dateVars, fetchVars>>

CallMigrateOldFormat(today) ==
    LET r == migrate_old_format(master, today)
    IN /\ master' = r.file
       /\ lastOp' = "migrate_old_format"
       /\ pre' = master
       /\ batch' = <<>>
       /\ outcome' = IF r.raised THEN "raised" ELSE "returned"
       /\ ret' = 0
       /\ now' = r.clock
       /\ accessLog' = r.log
       /\ loaded' = <<>>
       /\ UNCHANGED <<idVars, dateVars, fetchVars, mainVars>>

SaveToMaster ==
    /\ lastOp = "none"
    /\ runStart' = master
    /\ repeated' = FALSE
    /\ \E articles \in Batches, today \in Clock(master) :
          CallSaveToMaster(articles, today)
    /\ UNCHANGED mainVars

SaveToMasterAgain ==
    /\ lastOp = "save_to_master" /\ ~repeated
    /\ repeated' = TRUE
    /\ UNCHANGED runStart
    /\ \E today \in Clock(master) : CallSaveToMaster(batch, today)
    /\ UNCHANGED mainVars

MigrateOldFormat ==
    /\ lastOp = "none"
    /\ runStart' = master
    /\ repeated' = FALSE
    /\ \E today \in Clock(master) : CallMigrateOldFormat(today)

MigrateOldFormatAgain ==
    /\ lastOp = "migrate_old_format" /\ ~repeated
    /\ repeated' = TRUE
    /\ UNCHANGED runStart
    /\ \E today \in Clock(master) : CallMigrateOldFormat(today)

LoadExistingArticles ==
    /\ lastOp = "none"
    /\ runStart' = master
    /\ repeated' = FALSE
    /\ loaded' = load_existing_articles(master)
    /\ lastOp' = "load_existing_articles"
    /\ pre' = master
    /\ batch' = <<>>
    /\ outcome' = "returned"
    /\ ret' = 0
    /\ now' = NoDate
    /\ accessLog' = IF master.exists THEN <<"load_read">> ELSE <<>>
    /\ UNCHANGED <<master, idVars, dateVars, fetchVars, mainVars>>

\* the process ends; the next run finds the master file as it was left
NewRun ==
    /\ lastOp # "none"
    /\ lastOp' = "none"
    /\ runStart' = NoFile
    /\ repeated' = FALSE
    /\ pre' = NoFile
    /\ batch' = <<>>
    /\ outcome' = "none"
    /\ ret' = 0
    /\ now' = NoDate
    /\ accessLog' = <<>>
    /\ loaded' = <<>>
    /\ UNCHANGED <<master, idVars, dateVars, fetchVars, mainVars>>

Next ==
    \/ SaveToMaster
    \/ SaveToMasterAgain
    \/ MigrateOldFormat
    \/ MigrateOldFormatAgain
    \/ LoadExistingArticles
    \/ NewRun

Spec == Init /\ [][Next]_vars

----------------------------------------------------------------------------
(* The identity function alone: two triples of texts, given to it once *)

Chars == {"a", "_"}
Texts == SeqsUpTo(Chars, MaxLen)
Triples == Texts \X Texts \X Texts

InitId ==
    /\ idArgs \in Triples \X Triples
    /\ idContent = <<EmptyText, EmptyText>>
    /\ StoreIdle /\ DateIdle /\ FetchIdle /\ MainIdle

GenerateArticleId ==
    /\ lastOp = "none"
    /\ lastOp' = "generate_article_id"
    /\ idContent' = <<Content(idArgs[1][1], idArgs[1][2], idArgs[1][3]),
                      Content(idArgs[2][1], idArgs[2][2], idArgs[2][3])>>
    /\ outcome' = "returned"
    /\ UNCHANGED <<master, runStart, repeated, pre, batch, ret, now, accessLog,
                   loaded, idArgs, dateVars, fetchVars, mainVars>>

NextId == GenerateArticleId

SpecId == InitId /\ [][NextId]_vars

----------------------------------------------------------------------------
(* get_date_range alone: a day of a month, given to it once *)

InitDate ==
    /\ calendar \in {[day |-> d, days |-> n] : n \in MonthLengths, d \in 1..31}
    /\ calendar.day <= calendar.days
    /\ dateRange = NoRange
    /\ StoreIdle /\ IdIdle /\ FetchIdle /\ MainIdle

GetDateRange ==
    /\ dateRange = NoRange
    /\ dateRange' = get_date_range(calendar.day, calendar.days)
    /\ UNCHANGED <<calendar, storeVars, idVars, fetchVars, mainVars>>

NextDate == GetDateRange

SpecDate == InitDate /\ [][NextDate]_vars

----------------------------------------------------------------------------
(* get_articles: the loop over the result pages.  The site answers each    *)
(* page request as it likes: the request fails, or it gives a page with    *)
(* some article elements and with or without an enabled next-page button.  *)

\* the elements of a result page: one with a title, one without
PageArticles ==
    { [title |-> <<" ", "A">>, citation |-> NoTag, abstract |-> RequestError],
      [title |-> NoTag, citation |-> NoTag, abstract |-> NoTag] }

Responses ==
    {[status |-> "failed", articles |-> <<>>, next |-> FALSE]}
    \cup {[status |-> "ok", articles |-> a, next |-> b] :
            a \in SeqsUpTo(PageArticles, MaxPerPage), b \in BOOLEAN}

\* how the loop goes on after a response
Kind(r) ==
    IF r.status = "failed" THEN "failed"
    ELSE IF r.articles = <<>> THEN "empty"
    ELSE IF ~r.next THEN "last"
    ELSE "more"

PageLimit == 10     \* if page > 10

\* a page limit tested one page late
LimitReachedLate(p) == p > PageLimit + 1

\* if page > 10: break
LimitReached(p) == p > PageLimit

InitFetch ==
    /\ page = 1
    /\ fetchPc = "loop"
    /\ requests = 0
    /\ articulos = <<>>
    /\ response = "none"
    /\ fetched = <<>>
    /\ StoreIdle /\ IdIdle /\ DateIdle /\ MainIdle

\* one pass of the while loop
FetchPage ==
    /\ fetchPc = "loop"
    /\ \E r \in Responses :
          /\ requests' = requests + 1
          /\ response' = Kind(r)
          /\ articulos' = IF r.status = "ok"
                          THEN articulos \o Records(r.articles, ScrapeDay)
                          ELSE articulos
          /\ page' = IF Kind(r) = "more" THEN page + 1 ELSE page
          /\ fetchPc' = IF Kind(r) = "more" /\ ~LimitReached(page + 1)
                        THEN "loop" ELSE "break"
    /\ UNCHANGED <<fetched, storeVars, idVars, dateVars, mainVars>>

\* return articulos
ReturnArticulos ==
    /\ fetchPc = "break"
    /\ fetched' = articulos
    /\ fetchPc' = "done"
    /\ UNCHANGED <<page, requests, articulos, response, storeVars, idVars,
                   dateVars, mainVars>>

NextFetch == FetchPage \/ ReturnArticulos

\* the interpreter goes on to the next statement, and a request ends within
\* its timeout
SpecFetch == InitFetch /\ [][NextFetch]_vars /\ WF_vars(NextFetch)

----------------------------------------------------------------------------
(* The main program: fetch, write the numbered snapshot, merge into the    *)
(* master file.  dataDir is the set of the n with a file articulos_n.csv   *)
(* in data/.                                                               *)

Max(S) == CHOOSE x \in S : \A y \in S : y <= x

\* one more than the number of snapshot files
get_next_csv_number_by_count(dir) == Cardinality(dir) + 1

get_next_csv_number(dir) == IF dir = {} THEN 1 ELSE Max(dir) + 1

\* the elements the site may list: raw title, citation and abstract
MainArticles ==
    { [title |-> <<"A">>, citation |-> <<"J", ".", " ", "D", ";", "9">>,
       abstract |-> <<"x">>],
      [title |-> <<" ", "A", "\n">>, citation |-> <<"J", ".", "D", ";", "9">>,
       abstract |-> <<"y", " ">>],
      [title |-> <<"B">>, citation |-> <<" ", "J", ".", "D", ";", "9", ".">>,
       abstract |-> <<"x">>] }

\* what get_articles may return
FetchedBatches ==
    {Records(a, ScrapeDay) : a \in SeqsUpTo(MainArticles, MaxBatch)}

InitMain ==
    /\ master \in {f \in InitialFiles : ~f.exists \/ ~HeaderLineHasId(f)}
    /\ runStart = NoFile
    /\ lastOp = "none"
    /\ repeated = FALSE
    /\ pre = NoFile
    /\ batch = <<>>
    /\ outcome = "none"
    /\ ret = 0
    /\ now = NoDate
    /\ accessLog = <<>>
    /\ loaded = <<>>
    /\ mainPc = "start"
    /\ resultados = <<>>
    /\ dataDir \in SUBSET (1..(MaxSnapshot - 1))
    /\ dirAtStart = dataDir
    /\ snapshot = NoSnapshot
    /\ IdIdle /\ DateIdle /\ FetchIdle

\* resultados = get_articles(start_date, end_date)
MainGetArticles ==
    /\ mainPc = "start"
    /\ get_next_csv_number(dataDir) <= MaxSnapshot
    /\ resultados' \in FetchedBatches
    /\ mainPc' = "fetched"
    /\ UNCHANGED <<dataDir, dirAtStart, snapshot, storeVars, idVars, dateVars,
                   fetchVars>>

\* 1. the numbered file in data/
MainWriteSnapshot ==
    /\ mainPc = "fetched"
    /\ LET next_number == get_next_csv_number(dataDir)
       IN /\ snapshot' = [number |-> next_number,
                          file |-> WriteFile(resultados).file]
          /\ dataDir' = dataDir \cup {next_number}
    /\ mainPc' = "snapshot"
    /\ UNCHANGED <<resultados, dirAtStart, storeVars, idVars, dateVars,
                   fetchVars>>

\* 2. new_count = save_to_master(resultados, master_file)
MainSaveToMaster ==
    /\ mainPc = "snapshot"
    /\ mainPc' = "saved"
    /\ runStart' = master
    /\ repeated' = FALSE
    /\ \E today \in Clock(master) : CallSaveToMaster(resultados, today)
    /\ UNCHANGED <<resultados, dataDir, dirAtStart, snapshot>>

\* the process ends; the next run finds the files as they were left
MainEnd ==
    /\ mainPc = "saved"
    /\ mainPc' = "start"
    /\ resultados' = <<>>
    /\ dirAtStart' = dataDir
    /\ snapshot' = NoSnapshot
    /\ lastOp' = "none"
    /\ runStart' = NoFile
    /\ repeated' = FALSE
    /\ pre' = NoFile
    /\ batch' = <<>>
    /\ outcome' = "none"
    /\ ret' = 0
    /\ now' = NoDate
    /\ accessLog' = <<>>
    /\ loaded' = <<>>
    /\ UNCHANGED <<master, dataDir, idVars, dateVars, fetchVars>>

NextMain ==
    \/ MainGetArticles
    \/ MainWriteSnapshot
    \/ MainSaveToMaster
    \/ MainEnd

SpecMain == InitMain /\ [][NextMain]_vars

----------------------------------------------------------------------------
(* Vocabulary of the properties *)

Saved == lastOp = "save_to_master"
Migrated == lastOp = "migrate_old_format"
Loaded == lastOp = "load_existing_articles"

HasIdColumn(f) == "id" \in Range(f.header)
Legacy(f) == f.exists /\ ~HasIdColumn(f)
SixColumn(f) == f.exists /\ f.header = fieldnames

\* the id of each data line of a file, computed when the line has none
RowIds(f) ==
    LET lines == DictReader(f)
    IN [i \in DOMAIN lines |-> WithId(lines[i])["id"]]

Writes(log) == {i \in DOMAIN log : log[i] \in {"migrate_write", "merge_write"}}

\* the positions of the batch whose id the store did not hold before the call
AbsentBefore ==
    LET held == Range(RowIds(pre))
    IN {k \in DOMAIN batch : batch[k]["id"] \notin held}

\* an article as the six-column line DictWriter makes of it, read back
AsStored(article) ==
    [k \in Range(fieldnames) |-> Get(article, k)]

IsIn(row, d) == \E i \in DOMAIN d : d[i] = row

----------------------------------------------------------------------------
(* C1 -- no duplication: after any sequence of save_to_master calls from   *)
(* an absent or duplicate-free store, the master file holds at most one    *)
(* line per id.                                                            *)
C1_NoDuplication ==
    \A i, j \in DOMAIN master.rows :
        i # j => RowIds(master)[i] # RowIds(master)[j]

(* C2 -- first write wins against the store: after save_to_master on a     *)
(* six-column store, every record load gave before the call is still       *)
(* loaded unchanged, every line of the file was a line of it or is an      *)
(* incoming article whose id was absent, and a returned count is the       *)
(* number of incoming articles whose id was absent.                        *)
C2_FirstWriteWins ==
    (Saved /\ SixColumn(pre)) =>
        LET before == load_existing_articles(pre)
            after == load_existing_articles(master)
            lines == DictReader(master)
            linesBefore == DictReader(pre)
            absent == AbsentBefore
        IN /\ \A i \in DOMAIN before : IsIn(before[i], after)
           /\ \A j \in DOMAIN lines :
                \/ IsIn(lines[j], linesBefore)
                \/ \E k \in absent : lines[j] = AsStored(batch[k])
           /\ outcome = "returned" =>
                /\ ret = Cardinality(absent)
                /\ IF ret = 0 THEN master = pre
                   ELSE Len(lines) = Len(before) + ret

C2_Witness ==
    /\ Saved /\ SixColumn(pre) /\ outcome = "returned" /\ ret = 1
    /\ Len(batch) = 2
    /\ \E i \in DOMAIN pre.rows : \E k \in DOMAIN batch :
          /\ RowIds(pre)[i] = batch[k]["id"]
          /\ DictReader(pre)[i]["abstract"] # Get(batch[k], "abstract")

(* C3 -- idempotent merge: a second save_to_master with the same batch,    *)
(* right after the first, returns 0 and leaves the master file as the      *)
(* first call left it.                                                     *)
C3_IdempotentMerge ==
    (Saved /\ repeated) =>
        outcome = "returned" /\ ret = 0 /\ master = pre

(* C4 -- in-batch duplicates: on an empty store, a batch of two articles   *)
(* with the same id and different abstracts makes save_to_master return 1  *)
(* and the record kept for that id is the first of the two.                *)
C4_InBatchDuplicates ==
    ( /\ Saved /\ pre.rows = <<>> /\ Len(batch) = 2
      /\ batch[1]["id"] = batch[2]["id"]
      /\ "abstract" \in DOMAIN batch[1] /\ "abstract" \in DOMAIN batch[2]
      /\ batch[1]["abstract"] # batch[2]["abstract"] )
    => /\ outcome = "returned" /\ ret = 1
       /\ load_existing_articles(master) = <<AsStored(batch[1])>>

(* C5 -- no new records, no write: when no article of the batch has an id  *)
(* absent from the store, save_to_master returns 0 and the master file is  *)
(* untouched, neither written nor created, whatever the file was: absent,  *)
(* legacy or current.                                                      *)
C5_NoNewNoWrite ==
    (Saved /\ AbsentBefore = {}) =>
        /\ outcome = "returned" /\ ret = 0
        /\ master = pre
        /\ Writes(accessLog) = {}

(* C5 as amended: with no new article there is no merge rewrite; the file  *)
(* is untouched and 0 returned when the file is absent or has the id       *)
(* column, and a legacy file is rewritten once, by the migration.          *)
C5_NoNewNoMergeWrite ==
    (Saved /\ AbsentBefore = {}) =>
        /\ "merge_write" \notin Range(accessLog)
        /\ ~Legacy(pre) =>
              /\ outcome = "returned" /\ ret = 0
              /\ master = pre
              /\ Writes(accessLog) = {}
        /\ Legacy(pre) =>
              /\ Cardinality(Writes(accessLog)) = 1
              /\ HasIdColumn(master)

C5_Witness ==
    /\ Saved /\ AbsentBefore = {} /\ batch # <<>>
    /\ pre.exists /\ HasIdColumn(pre) /\ master = pre

(* C6 -- the upgrade preserves data: migrate_old_format on a legacy file   *)
(* leaves the same records in the same order, each with every field it     *)
(* had, unchanged and in the same column order, plus its id and the date   *)
(* of the run as scraped_date.                                             *)
C6_UpgradePreservesData ==
    (Migrated /\ Legacy(pre)) =>
        LET old == DictReader(pre)
            new == DictReader(master)
        IN /\ outcome = "returned"
           /\ Len(new) = Len(old)
           /\ \A i \in DOMAIN old :
                /\ \A c \in DOMAIN old[i] :
                      c \in DOMAIN new[i] /\ new[i][c] = old[i][c]
                /\ new[i]["id"] = generate_article_id(Get(old[i], "title"),
                                                      Get(old[i], "journal"),
                                                      Get(old[i], "date"))
                /\ new[i]["scraped_date"] = now
           /\ \A a, b \in DOMAIN pre.header :
                (a < b /\ pre.rows # <<>>) => \E x, y \in DOMAIN master.header :
                            /\ x < y
                            /\ master.header[x] = pre.header[a]
                            /\ master.header[y] = pre.header[b]

(* C7 -- upgrade idempotence: migrate_old_format changes nothing when the  *)
(* file is absent or has the id column, and migrating a second time leaves *)
(* the file the first migration made.                                      *)
C7_UpgradeIdempotence ==
    Migrated =>
        /\ (~pre.exists \/ HasIdColumn(pre)) =>
              master = pre /\ Writes(accessLog) = {}
        /\ repeated => master = pre

C7_Witness ==
    /\ Migrated /\ repeated
    /\ Legacy(runStart) /\ runStart.rows # <<>>
    /\ pre # runStart /\ Len(pre.rows) = Len(runStart.rows)

(* C8 -- load never fails on missing ids: it gives the empty mapping for   *)
(* an absent file, and for a file without id column a mapping where each   *)
(* line is keyed by generate_article_id of its title, journal and date,    *)
(* an absent field counting as the empty text.                             *)
C8_LoadMissingIds ==
    Loaded =>
        /\ outcome = "returned"
        /\ ~master.exists => loaded = <<>>
        /\ Legacy(master) =>
              LET lines == DictReader(master)
                  IdOf(r) == generate_article_id(
                                IF "title" \in DOMAIN r THEN r["title"] ELSE EmptyText,
                                IF "journal" \in DOMAIN r THEN r["journal"] ELSE EmptyText,
                                IF "date" \in DOMAIN r THEN r["date"] ELSE EmptyText)
              IN /\ \A i \in DOMAIN lines :
                      \E e \in DOMAIN loaded :
                          /\ loaded[e]["id"] = IdOf(lines[i])
                          /\ \A c \in DOMAIN lines[i] :
                                loaded[e][c] = lines[i][c]
                 /\ \A e \in DOMAIN loaded :
                      \E i \in DOMAIN lines : loaded[e]["id"] = IdOf(lines[i])

C8_Witness ==
    /\ Loaded /\ Legacy(master) /\ Len(loaded) = 2
    /\ "journal" \notin Range(master.header)

(* C9 -- identity sensitivity: two triples (title, journal, date) that     *)
(* differ in a component, underscores in the texts included, give          *)
(* different strings to the digest.                                        *)
Computed == lastOp = "generate_article_id"

C9_Sensitivity ==
    (Computed /\ idArgs[1] # idArgs[2]) => idContent[1] # idContent[2]

(* C9 as amended: two triples that differ in a component give different    *)
(* strings to the digest when no title and no journal holds an underscore. *)
NoUnderscore(text) == \A i \in DOMAIN text : text[i] # "_"

C9_SensitivityNoUnderscore ==
    ( /\ Computed /\ idArgs[1] # idArgs[2]
      /\ \A n \in {1, 2} : NoUnderscore(idArgs[n][1]) /\ NoUnderscore(idArgs[n][2]) )
    => idContent[1] # idContent[2]

C9_Witness ==
    /\ Computed /\ idArgs[1] # idArgs[2]
    /\ \A n \in {1, 2} : NoUnderscore(idArgs[n][1]) /\ NoUnderscore(idArgs[n][2])
    /\ idArgs[1][1] # idArgs[2][1]
    /\ ~NoUnderscore(idArgs[1][3])

(* C10 -- optional fields: for articles with id, title, journal, date and  *)
(* any of the optional fields, and a store with any of the optional        *)
(* columns, save_to_master ends without error, writes the empty text for    *)
(* absent fields, and keeps every record the store held.                   *)
C10_OptionalFields ==
    Saved =>
        /\ outcome = "returned"
        /\ \A i \in DOMAIN pre.rows :
              \E j \in DOMAIN master.rows : RowIds(master)[j] = RowIds(pre)[i]
        /\ SixColumn(master) /\ master # pre =>
              \A k \in AbsentBefore : IsIn(AsStored(batch[k]), DictReader(master))

\* the opens of the master file the upgrade makes on a file
UpgradeAccesses(f) ==
    IF ~f.exists THEN <<>>
    ELSE IF HasIdColumn(f) THEN <<"migrate_read">>
    ELSE <<"migrate_read", "migrate_reread", "migrate_write">>

(* C11 -- write discipline: every save_to_master opens the master file in  *)
(* this order: the reads and the rewrite of the upgrade when the file is   *)
(* legacy, then one read by the load (of a file that exists), then the     *)
(* merge rewrite, which is there exactly when the batch has an article     *)
(* whose id the store did not hold, once and as the last access.           *)
C11_WriteDiscipline ==
    Saved =>
        accessLog = UpgradeAccesses(pre)
                    \o (IF pre.exists THEN <<"load_read">> ELSE <<>>)
                    \o (IF AbsentBefore # {} THEN <<"merge_write">> ELSE <<>>)

(* C12 -- merge content and order: when the batch has an article whose id  *)
(* the store did not hold, save_to_master leaves a file of the six-column  *)
(* header, then every record the load returned in the order of the load,   *)
(* then every new article in the order of the batch.                       *)
C12_MergeContentAndOrder ==
    (Saved /\ AbsentBefore # {}) =>
        LET existing == load_existing_articles(migrate_old_format(pre, now).file)
            new == SelectSeq(batch, LAMBDA a : a["id"] \notin Keys(existing))
            all == existing \o new
        IN /\ master.exists /\ master.header = fieldnames
           /\ DictReader(master) = [i \in DOMAIN all |-> AsStored(all[i])]

(* C13 -- load key uniqueness: load_existing_articles returns one entry    *)
(* per distinct id of the file, and the entry of an id is the last line    *)
(* of the file with that id.                                               *)
C13_LoadKeyUniqueness ==
    Loaded =>
        LET lines == DictReader(master)
            ids == RowIds(master)
        IN /\ \A e1, e2 \in DOMAIN loaded :
                e1 # e2 => loaded[e1]["id"] # loaded[e2]["id"]
           /\ {loaded[e]["id"] : e \in DOMAIN loaded} = Range(ids)
           /\ \A e \in DOMAIN loaded :
                \E i \in DOMAIN lines :
                    /\ ids[i] = loaded[e]["id"]
                    /\ \A j \in DOMAIN lines : ids[j] = ids[i] => j <= i
                    /\ \A c \in DOMAIN lines[i] : loaded[e][c] = lines[i][c]

C13_Witness ==
    /\ Loaded /\ Len(loaded) = 1 /\ Len(master.rows) = 2
    /\ master.rows[1] # master.rows[2]
    /\ RowIds(master)[1] = RowIds(master)[2]

\* every article of the batch has the six keys and no other
SixColumnBatch == \A k \in DOMAIN batch : DOMAIN batch[k] = Range(fieldnames)

C16_UpgradeAndFallbackAgree ==
    (Migrated /\ Legacy(pre)) =>
        LET direct == load_existing_articles(pre)
            after == load_existing_articles(master)
        IN /\ Keys(direct) = Keys(after)
           /\ \A i \in DOMAIN direct : \A j \in DOMAIN after :
                direct[i]["id"] = after[j]["id"] =>
                    \A c \in {"title", "journal", "date", "abstract"} :
                        Get(direct[i], c) = Get(after[j], c)

(* C14 -- stored-identity invariant: from an absent or a legacy master     *)
(* file, after any sequence of runs of the main program (fetch, then       *)
(* save_to_master with its upgrade), the id of every line of the master    *)
(* file is generate_article_id of the line's title, journal and date.      *)
C14_StoredIdentity ==
    LET lines == DictReader(master)
    IN \A i \in DOMAIN lines :
          "id" \in DOMAIN lines[i] =>
              lines[i]["id"] = generate_article_id(Get(lines[i], "title"),
                                                   Get(lines[i], "journal"),
                                                   Get(lines[i], "date"))

C14_Witness ==
    /\ mainPc = "saved" /\ outcome = "returned" /\ ret > 0
    /\ pre.exists /\ ~HasIdColumn(pre) /\ pre.rows # <<>>
    /\ Len(master.rows) = Len(pre.rows) + ret

(* C17 -- fetch loop termination: whatever the site answers, get_articles  *)
(* comes to return its list, it requests at most 10 result pages, what it  *)
(* returns is the list of the records collected, and a failed page request *)
(* ends the loop with the records collected before it.                     *)
C17_FetchLoopTermination ==
    /\ <>(fetchPc = "done")
    /\ [](requests <= PageLimit)
    /\ [](fetchPc = "done" => fetched = articulos)
    /\ [][(fetchPc = "loop" /\ response' = "failed") =>
             (fetchPc' = "break" /\ articulos' = articulos)]_vars

C17_Witness ==
    /\ fetchPc = "done" /\ requests = PageLimit /\ response = "more"
    /\ Len(fetched) >= PageLimit

(* C18 -- snapshot per run: a run of the main program writes one numbered  *)
(* file, with the header and the fetched records, also for an empty batch; *)
(* it is written before save_to_master is called and stays whatever that   *)
(* call does; its number is one more than the largest number of a snapshot *)
(* file the run found, so no file the run found is written over.           *)
C18_SnapshotPerRun ==
    /\ mainPc \in {"start", "fetched"} =>
          /\ dataDir = dirAtStart /\ snapshot = NoSnapshot
          /\ lastOp = "none"
    /\ mainPc \in {"snapshot", "saved"} =>
          /\ snapshot.number \notin dirAtStart
          /\ IF dirAtStart = {} THEN snapshot.number = 1
             ELSE \E m \in dirAtStart :
                     /\ \A n \in dirAtStart : n <= m
                     /\ snapshot.number = m + 1
          /\ dataDir = dirAtStart \cup {snapshot.number}
          /\ snapshot.file.exists /\ snapshot.file.header = fieldnames
          /\ DictReader(snapshot.file) = resultados
    /\ mainPc = "snapshot" => lastOp = "none"
    /\ mainPc = "saved" => lastOp = "save_to_master"

C18_Witness ==
    /\ mainPc = "saved" /\ outcome = "raised" /\ resultados = <<>>
    /\ dirAtStart # {}
    /\ \E n \in 1..snapshot.number : n \notin dataDir

(* C19 -- half-month window: for every day of a month of 28 to 31 days,    *)
(* get_date_range returns days 1 to 15 as quincena_1 when the day is in    *)
(* 1..15 and day 16 to the last day of the month as quincena_2 when the    *)
(* day is 16 or later, so the window holds the day.                        *)
C19_HalfMonthWindow ==
    dateRange # NoRange =>
        /\ calendar.day <= 15 =>
              dateRange = [start |-> 1, end |-> 15, period |-> "quincena_1"]
        /\ calendar.day >= 16 =>
              dateRange = [start |-> 16, end |-> calendar.days,
                           period |-> "quincena_2"]
        /\ dateRange.start <= calendar.day /\ calendar.day <= dateRange.end

====
